---- MODULE Spec2Model ----
(***************************************************************************)
(* Entry segmentation of Encyclopaedia Britannica OCR output.              *)
(*                                                                         *)
(* Two parsers are modelled side by side:                                  *)
(*   BritannicaParser      (src/parse_britannica.py, ALTO XML),            *)
(*   BritannicaTextParser  (src/parse_britannica_text.py, plain text).     *)
(*                                                                         *)
(* A string is a sequence of one-character strings, so that the regular    *)
(* expressions, strip(), rstrip() and join() of the source are computed    *)
(* character by character.                                                 *)
(***************************************************************************)
EXTENDS Integers, Sequences, FiniteSets, TLC

(***************************************************************************)
(* Bounds of the model.                                                    *)
(***************************************************************************)
MaxLines == 3        \* longest document, in lines
MaxEntries == 3      \* longest entry list handed to merge_duplicate_entries
MaxTrail == 2        \* longest run of trailing " " and "," on a merge title

(***************************************************************************)
(* Characters.                                                             *)
(***************************************************************************)
Upper == {"A","B","C","D","E","F","G","H","I","J","K","L","M",
          "N","O","P","Q","R","S","T","U","V","W","X","Y","Z"}
Lower == {"a","b","c","d","e","f","g","h","i","j","k","l","m",
          "n","o","p","q","r","s","t","u","v","w","x","y","z"}
Digit == {"0","1","2","3","4","5","6","7","8","9"}
\* \s of the re module and the characters removed by str.strip()
Whitespace == {" ", "\t"}
\* \w of the re module: the characters between which \b does not match
WordChar == Upper \cup Lower \cup Digit \cup {"_"}

\* str.lstrip()
LStrip(s) ==
    IF \A i \in 1..Len(s) : s[i] \in Whitespace THEN <<>>
    ELSE LET k == CHOOSE i \in 1..Len(s) :
                     /\ s[i] \notin Whitespace
                     /\ \A j \in 1..(i-1) : s[j] \in Whitespace
         IN  SubSeq(s, k, Len(s))

\* str.rstrip(chars): drops the longest suffix made of characters of cs
RStrip(s, cs) ==
    IF \A i \in 1..Len(s) : s[i] \in cs THEN <<>>
    ELSE LET k == CHOOSE i \in 1..Len(s) :
                     /\ s[i] \notin cs
                     /\ \A j \in (i+1)..Len(s) : s[j] \in cs
         IN  SubSeq(s, 1, k)

\* str.strip()
Strip(s) == LStrip(RStrip(s, Whitespace))

\* sep.join(ss)
RECURSIVE Join(_, _)
Join(ss, sep) ==
    IF ss = <<>> THEN <<>>
    ELSE IF Len(ss) = 1 THEN ss[1]
    ELSE ss[1] \o sep \o Join(Tail(ss), sep)

\* pat in s
Contains(s, pat) ==
    \E k \in 0..(Len(s) - Len(pat)) :
        \A j \in 1..Len(pat) : s[k + j] = pat[j]

\* s.count(' ')
CountSpaces(s) == Cardinality({i \in 1..Len(s) : s[i] = " "})

\* end of the maximal run of word characters that starts at i
RunEnd(s, i) ==
    CHOOSE j \in i..Len(s) :
        /\ \A k \in i..j : s[k] \in WordChar
        /\ (j = Len(s) \/ s[j + 1] \notin WordChar)

\* re.findall(r'\b[L]{3,}\b', s) for a set L of letters, as the set of the
\* start positions of the matches: \b matches only at the two ends of a
\* maximal run of word characters, so a match is a whole run, at least 3
\* long and made of letters of L only
WordRuns(s, L) ==
    {i \in 1..Len(s) :
        /\ s[i] \in WordChar
        /\ (i = 1 \/ s[i - 1] \notin WordChar)
        /\ RunEnd(s, i) - i + 1 >= 3
        /\ \A k \in i..RunEnd(s, i) : s[k] \in L}

CountWords(s, L) == Cardinality(WordRuns(s, L))

(***************************************************************************)
(* The regular expressions of extract_entries.  Each returns a record:     *)
(* ok (did re.match succeed) and the groups the code reads.                *)
(***************************************************************************)
TitleClass == Upper \cup Whitespace \cup {"-"}
TitleClassComma == TitleClass \cup {","}
NoMatch == [ok |-> FALSE, g1 |-> <<>>, g3 |-> <<>>]

\* re.match(r'^([A-Z][A-Z\s\-]+?)([\.,])\s+(.+)$', line)
\* group 1 ends at the first character outside [A-Z\s\-]; \s+ is greedy and
\* gives one character back when nothing would be left for (.+)
SingleLineMatch(line) ==
    LET n  == Len(line)
        ks == {k \in 3..n :
                  /\ line[1] \in Upper
                  /\ \A j \in 2..(k-1) : line[j] \in TitleClass
                  /\ line[k] \in {".", ","}}
    IN  IF ks = {} THEN NoMatch
        ELSE LET k  == CHOOSE x \in ks : TRUE
                 \* first index after the whitespace run that follows line[k]
                 e  == CHOOSE x \in (k+1)..(n+1) :
                          /\ \A j \in (k+1)..(x-1) : line[j] \in Whitespace
                          /\ (x = n + 1 \/ line[x] \notin Whitespace)
             IN  IF e = k + 1 THEN NoMatch            \* \s+ needs one
                 ELSE IF e <= n
                      THEN [ok |-> TRUE, g1 |-> SubSeq(line, 1, k-1),
                            g3 |-> SubSeq(line, e, n)]
                 ELSE IF e - 1 >= k + 2               \* backtrack \s+
                      THEN [ok |-> TRUE, g1 |-> SubSeq(line, 1, k-1),
                            g3 |-> SubSeq(line, n, n)]
                 ELSE NoMatch

\* re.match(r'^([A-Z][A-Z\s\-]+?)(?:,|\.|$)', line)      (ALTO XML parser)
XmlTitleMatch(line) ==
    LET n  == Len(line)
        ks == {k \in 3..(n+1) :
                  /\ line[1] \in Upper
                  /\ \A j \in 2..(k-1) : line[j] \in TitleClass
                  /\ (k = n + 1 \/ line[k] \in {".", ","})}
    IN  IF ks = {} THEN NoMatch
        ELSE LET k == CHOOSE x \in ks : \A y \in ks : x <= y
             IN  [ok |-> TRUE, g1 |-> SubSeq(line, 1, k-1), g3 |-> <<>>]

\* faulty variant: the pattern is not anchored at the end of the line
TextTitleMatchUnanchored(line) ==
    LET n  == Len(line)
        ks == {k \in 3..n :
                  /\ line[1] \in Upper
                  /\ \A j \in 2..(k-1) : line[j] \in TitleClassComma
                  /\ line[k] \in {".", ","}}
    IN  IF ks = {} THEN NoMatch
        ELSE LET k == CHOOSE x \in ks : \A y \in ks : x <= y
             IN  [ok |-> TRUE, g1 |-> SubSeq(line, 1, k-1), g3 |-> <<>>]

\* re.match(r'^([A-Z][A-Z\s\-,]+?)[\.,]\s*$', line_stripped) (text parser)
TextTitleMatch(line) ==
    LET n  == Len(line)
        ks == {k \in 3..n :
                  /\ line[1] \in Upper
                  /\ \A j \in 2..(k-1) : line[j] \in TitleClassComma
                  /\ line[k] \in {".", ","}
                  /\ \A j \in (k+1)..n : line[j] \in Whitespace}
    IN  IF ks = {} THEN NoMatch
        ELSE LET k == CHOOSE x \in ks : \A y \in ks : x <= y
             IN  [ok |-> TRUE, g1 |-> SubSeq(line, 1, k-1), g3 |-> <<>>]

\* faulty variant: the pattern is anchored at the end of the title too
SingleLetterSpaceWhole(title) ==
    Len(title) = 2 /\ title[1] \in Upper /\ title[2] \in Whitespace

\* re.match(r'^[A-Z]\s', title)
SingleLetterSpace(title) ==
    Len(title) >= 2 /\ title[1] \in Upper /\ title[2] \in Whitespace
\* re.match(r'^[A-Z]$', title)
SingleLetterOnly(title) == Len(title) = 1 /\ title[1] \in Upper
\* re.match(r'^[A-Z],', title)
SingleLetterComma(title) ==
    Len(title) >= 2 /\ title[1] \in Upper /\ title[2] = ","

(***************************************************************************)
(* Documents.  A page is a sequence of text lines, each given by its       *)
(* words: the CONTENT attributes of the String elements of one ALTO        *)
(* TextLine, or the blank-separated words of one line of a text file.      *)
(***************************************************************************)
\* "ALGEBRA,"
L_Algebra ==
    <<<<"A","L","G","E","B","R","A",",">>>>
\* "a branch of mathematics dealing"
L_Branch ==
    <<<<"a">>, <<"b","r","a","n","c","h">>, <<"o","f">>,
      <<"m","a","t","h","e","m","a","t","i","c","s">>,
      <<"d","e","a","l","i","n","g">>>>
\* "with symbols and equations."
L_Symbols ==
    <<<<"w","i","t","h">>, <<"s","y","m","b","o","l","s">>, <<"a","n","d">>,
      <<"e","q","u","a","t","i","o","n","s",".">>>>
\* "ALGEBRA, a branch of mathematics."
L_AlgebraOne ==
    <<<<"A","L","G","E","B","R","A",",">>, <<"a">>,
      <<"b","r","a","n","c","h">>, <<"o","f">>,
      <<"m","a","t","h","e","m","a","t","i","c","s",".">>>>
\* "It deals with symbols."
L_Deals ==
    <<<<"I","t">>, <<"d","e","a","l","s">>, <<"w","i","t","h">>,
      <<"s","y","m","b","o","l","s",".">>>>
\* "ENCYCLOPAEDIA BRITANNICA"
L_Banner ==
    <<<<"E","N","C","Y","C","L","O","P","A","E","D","I","A">>,
      <<"B","R","I","T","A","N","N","I","C","A">>>>
\* "ab"
L_Ab ==
    <<<<"a","b">>>>
\* "BOTANY, the science of plants and their uses."
L_Botany ==
    <<<<"B","O","T","A","N","Y",",">>, <<"t","h","e">>,
      <<"s","c","i","e","n","c","e">>, <<"o","f">>,
      <<"p","l","a","n","t","s">>, <<"a","n","d">>,
      <<"t","h","e","i","r">>, <<"u","s","e","s",".">>>>
\* "H"
L_H ==
    <<<<"H">>>>

WordLines ==
    {L_Algebra, L_Branch, L_Symbols, L_AlgebraOne, L_Deals, L_Banner,
     L_Ab, L_Botany, L_H}

\* the TextLine elements a page may hold: the lines above, a TextLine with a
\* String of empty CONTENT and a TextLine with no String at all
XmlRawLines == WordLines \cup {<<<<"a","b">>, <<>>>>, <<>>}

\* the physical lines a text file may hold: the lines above, an empty line,
\* a line with trailing blanks and an indented line
TextRawLines ==
    {Join(w, <<" ">>) : w \in WordLines}
        \cup {<<>>, Join(L_Algebra, <<" ">>) \o <<" ", " ">>,
              <<" ">> \o Join(L_Deals, <<" ">>)}

\* all sequences over S of length 0..n
RECURSIVE SeqsUpTo(_, _)
SeqsUpTo(S, n) ==
    IF n = 0 THEN {<<>>}
    ELSE LET shorter == SeqsUpTo(S, n - 1)
         IN  shorter \cup {Append(q, x) : q \in shorter, x \in S}

\* BritannicaParser.get_text_lines: the words of non-empty CONTENT of each
\* TextLine joined by one space; a TextLine without words gives no line
RECURSIVE XmlGetTextLines(_)
XmlGetTextLines(raw) ==
    IF raw = <<>> THEN <<>>
    ELSE LET words == SelectSeq(Head(raw), LAMBDA c : c # <<>>)
             rest  == XmlGetTextLines(Tail(raw))
         IN  IF words # <<>> THEN <<Join(words, <<" ">>)>> \o rest
             ELSE rest

\* BritannicaTextParser.get_text_lines: line.rstrip() of every line
TextGetTextLines(raw) ==
    [k \in 1..Len(raw) |-> RStrip(raw[k], Whitespace)]

(***************************************************************************)
(* merge_duplicate_entries.  The dict `merged` keeps its keys in insertion *)
(* order; it is modelled as the sequence of its values, whose title is the *)
(* key.                                                                    *)
(***************************************************************************)
\* title.strip().rstrip(',.')                  (parse_britannica.py)
XmlNormalizeTitle(title) == RStrip(Strip(title), {",", "."})

\* faulty variant: every entry is stored as a new value of the dict
XmlMergeEntryAlwaysNew(merged, entry) ==
    Append(merged, [title |-> XmlNormalizeTitle(entry.title),
                    text  |-> entry.text])

\* faulty variant: a merged entry moves to the end of the dict
XmlMergeEntryMoveLast(merged, entry) ==
    LET normalized_title == XmlNormalizeTitle(entry.title)
    IN  IF \E k \in 1..Len(merged) : merged[k].title = normalized_title
        THEN LET k == CHOOSE x \in 1..Len(merged) :
                          merged[x].title = normalized_title
             IN  Append(SelectSeq(merged,
                                  LAMBDA e : e.title # normalized_title),
                        [title |-> normalized_title,
                         text  |-> merged[k].text \o <<" ">> \o entry.text])
        ELSE Append(merged, [title |-> normalized_title,
                             text  |-> entry.text])

\* one iteration of the loop over entries      (parse_britannica.py)
XmlMergeEntry(merged, entry) ==
    LET normalized_title == XmlNormalizeTitle(entry.title)
    IN  IF \E k \in 1..Len(merged) : merged[k].title = normalized_title
        THEN LET k == CHOOSE x \in 1..Len(merged) :
                          merged[x].title = normalized_title
             IN  [merged EXCEPT ![k].text = @ \o <<" ">> \o entry.text]
        ELSE Append(merged, [title |-> normalized_title,
                             text  |-> entry.text])

RECURSIVE XmlMergeLoop(_, _)
XmlMergeLoop(merged, entries) ==
    IF entries = <<>> THEN merged
    ELSE XmlMergeLoop(XmlMergeEntry(merged, Head(entries)), Tail(entries))

\* BritannicaParser.merge_duplicate_entries
XmlMergeDuplicateEntries(entries) ==
    IF entries = <<>> THEN entries ELSE XmlMergeLoop(<<>>, entries)

\* title.strip().rstrip(',.')                  (parse_britannica_text.py)
TextNormalizeTitle(title) == RStrip(Strip(title), {",", "."})

\* faulty variant: the later text is put in front of the earlier one
TextMergeEntryPrepend(merged, entry) ==
    LET normalized_title == TextNormalizeTitle(entry.title)
    IN  IF \E k \in 1..Len(merged) : merged[k].title = normalized_title
        THEN LET k == CHOOSE x \in 1..Len(merged) :
                          merged[x].title = normalized_title
             IN  [merged EXCEPT ![k].text = entry.text \o <<" ">> \o @]
        ELSE Append(merged, [title |-> normalized_title,
                             text  |-> entry.text])

\* one iteration of the loop over entries      (parse_britannica_text.py)
TextMergeEntry(merged, entry) ==
    LET normalized_title == TextNormalizeTitle(entry.title)
    IN  IF \E k \in 1..Len(merged) : merged[k].title = normalized_title
        THEN LET k == CHOOSE x \in 1..Len(merged) :
                          merged[x].title = normalized_title
             IN  [merged EXCEPT ![k].text = @ \o <<" ">> \o entry.text]
        ELSE Append(merged, [title |-> normalized_title,
                             text  |-> entry.text])

RECURSIVE TextMergeLoop(_, _)
TextMergeLoop(merged, entries) ==
    IF entries = <<>> THEN merged
    ELSE TextMergeLoop(TextMergeEntry(merged, Head(entries)), Tail(entries))

\* BritannicaTextParser.merge_duplicate_entries
TextMergeDuplicateEntries(entries) ==
    IF entries = <<>> THEN entries ELSE TextMergeLoop(<<>>, entries)

MergeDuplicateEntries(v, entries) ==
    IF v = "xml" THEN XmlMergeDuplicateEntries(entries)
    ELSE TextMergeDuplicateEntries(entries)

NormalizeTitle(v, title) ==
    IF v = "xml" THEN XmlNormalizeTitle(title) ELSE TextNormalizeTitle(title)

(***************************************************************************)
(* BritannicaTextParser.is_valid_entry                                     *)
(***************************************************************************)
\* re.search(r'[.!?](\s|$)', text)
HasSentenceEnd(text) ==
    \E k \in 1..Len(text) :
        /\ text[k] \in {".", "!", "?"}
        /\ (k = Len(text) \/ text[k + 1] \in Whitespace)

\* faulty variant: two words of 3+ letters are enough
is_valid_entry_two_words(text) ==
    IF text = <<>> \/ Len(Strip(text)) < 20 THEN FALSE
    ELSE IF HasSentenceEnd(text)
         THEN Cardinality(WordRuns(text, Upper \cup Lower)) >= 2
         ELSE FALSE

is_valid_entry(text) ==
    IF text = <<>> \/ Len(Strip(text)) < 20 THEN FALSE
    ELSE IF HasSentenceEnd(text)
         THEN Cardinality(WordRuns(text, Upper \cup Lower)) >= 5
         ELSE FALSE

(***************************************************************************)
(* Classification of one line by the body of the loop of extract_entries:  *)
(* kind is what the loop does with the line, rule the branch that decided. *)
(*   single      a complete single-line entry is created                   *)
(*   title       an entry is opened by a title line                        *)
(*   append      the line is added to the open entry, if there is one      *)
(*   append_any  (text parser) the same, from the single-line branches,    *)
(*               which do not test the length of the line                  *)
(*   skip        `continue`: the line is dropped                           *)
(***************************************************************************)
Disposition(kind, rule, title, text) ==
    [kind |-> kind, rule |-> rule, title |-> title, text |-> text]

\* faulty variant: the line is added without the separating blank
AppendLineNoBlank(text, line) == text \o line

\* text += ' ' + line
AppendLine(text, line) == text \o <<" ">> \o line

\* faulty variant: more than 11 blanks
TooSpacedOver11(title) == CountSpaces(title) > 11

\* title.count(' ') > 10
TooSpaced(title) == CountSpaces(title) > 10

\* faulty variant: titles of 3 characters are long enough
XmlTitleOkFrom3(title) ==
    Len(title) >= 3 /\ CountWords(title, Upper) >= 1

\* len(title) >= 5 and len(words) >= 1          (parse_britannica.py:152)
XmlTitleOk(title) ==
    Len(title) >= 5 /\ CountWords(title, Upper) >= 1

\* len(title) >= 5 and len(words) >= 1 and len(text) > 10
\*                                              (parse_britannica.py:113)
XmlSingleOk(title, text) ==
    Len(title) >= 5 /\ CountWords(title, Upper) >= 1 /\ Len(text) > 10

\* faulty variant: the title-only shape of the plain-text parser takes
\* titles of 3 characters
TextTitleOkFrom3(title) ==
    Len(title) >= 3 /\ CountWords(title, Upper) >= 1

\* len(title) >= 5 and len(words) >= 1     (parse_britannica_text.py:179)
TextTitleOk(title) ==
    Len(title) >= 5 /\ CountWords(title, Upper) >= 1

\* len(title) >= 5 and len(words) >= 1 and len(text) > 10
\*                                         (parse_britannica_text.py:135)
TextSingleOk(title, text) ==
    Len(title) >= 5 /\ CountWords(title, Upper) >= 1 /\ Len(text) > 10

\* parse_britannica.py, the body of `for line in lines`
XmlClassify(line) ==
    LET m1     == SingleLineMatch(line)
        title1 == Strip(m1.g1)
        m2     == XmlTitleMatch(line)
        title2 == RStrip(Strip(m2.g1), {",", "."})
    IN  IF m1.ok /\ (SingleLetterSpace(title1) \/ SingleLetterOnly(title1))
        THEN Disposition("append", "single_letter", <<>>, <<>>)
        ELSE IF m1.ok /\ TooSpaced(title1)
        THEN Disposition("append", "single_spacing", <<>>, <<>>)
        ELSE IF m1.ok /\ XmlSingleOk(title1, line)
        THEN Disposition("single", "single_line", title1, line)
        ELSE IF ~m2.ok
        THEN Disposition("append", "no_match", <<>>, <<>>)
        ELSE IF SingleLetterSpace(title2) \/ SingleLetterComma(title2)
        THEN Disposition("skip", "title_letter", <<>>, <<>>)
        ELSE IF TooSpaced(title2)
        THEN Disposition("skip", "title_spacing", <<>>, <<>>)
        ELSE IF XmlTitleOk(title2)
        THEN Disposition("title", "title_line", title2, line)
        ELSE Disposition("append", "title_short", <<>>, <<>>)

\* skip_patterns of BritannicaTextParser.extract_entries
skip_patterns ==
    { <<"E","N","C","Y","C","L","O","P","A","E","D","I","A"," ",
        "B","R","I","T","A","N","N","I","C","A">>,
      <<"S","E","V","E","N","T","H"," ","E","D","I","T","I","O","N">>,
      <<"D","I","C","T","I","O","N","A","R","Y">>,
      <<"V","O","L","U","M","E">>,
      <<"S","C","I","E","N","C","E","S">>,
      <<"L","I","T","E","R","A","T","U","R","E">>,
      <<"D","I","S","S","E","R","T","A","T","I","O","N","S">>,
      <<"S","U","P","P","L","E","M","E","N","T">>,
      <<"G","E","N","E","R","A","L"," ","I","N","D","E","X">>,
      <<"E","N","G","R","A","V","I","N","G","S">>,
      <<"E","D","I","N","B","U","R","G","H">> }

\* any(pattern in line_stripped for pattern in skip_patterns)
IsHeaderLine(line_stripped) ==
    \E pattern \in skip_patterns : Contains(line_stripped, pattern)

\* parse_britannica_text.py, the body of `for line in lines`
TextClassify(line) ==
    LET line_stripped == Strip(line)
        m1     == SingleLineMatch(line_stripped)
        title1 == Strip(m1.g1)
        text1  == Strip(m1.g3)
        m2     == TextTitleMatch(line_stripped)
        title2 == RStrip(Strip(m2.g1), {",", "."})
    IN  IF Strip(line) = <<>>
        THEN Disposition("skip", "empty", <<>>, <<>>)
        ELSE IF IsHeaderLine(line_stripped)
        THEN Disposition("skip", "header", <<>>, <<>>)
        ELSE IF m1.ok /\ (SingleLetterSpace(title1) \/ SingleLetterOnly(title1))
        THEN Disposition("append_any", "single_letter", <<>>, <<>>)
        ELSE IF m1.ok /\ TooSpaced(title1)
        THEN Disposition("append_any", "single_spacing", <<>>, <<>>)
        ELSE IF m1.ok /\ TextSingleOk(title1, text1)
        THEN Disposition("single", "single_line", title1, text1)
        ELSE IF m2.ok /\ (SingleLetterSpace(title2) \/ SingleLetterComma(title2))
        THEN Disposition("skip", "title_letter", <<>>, <<>>)
        ELSE IF m2.ok /\ TooSpaced(title2)
        THEN Disposition("skip", "title_spacing", <<>>, <<>>)
        ELSE IF m2.ok /\ TextTitleOk(title2)
        THEN Disposition("title", "title_line", title2, <<>>)
        ELSE Disposition("append", IF m2.ok THEN "title_short" ELSE "no_match",
                         <<>>, <<>>)

(***************************************************************************)
(* State.                                                                  *)
(*   variant        "xml" (BritannicaParser) or "text" (BritannicaText-    *)
(*                  Parser)                                                *)
(*   lines          the value of self.get_text_lines()                     *)
(*   i              index of the line the loop of extract_entries is at    *)
(*   heap           the entry dicts created so far, in creation order; an  *)
(*                  entry is referred to by its index in heap              *)
(*   entries        the list `entries` before merging (references)         *)
(*   current_entry  reference of the open entry, 0 for None                *)
(*   in_content     the flag of the text parser                            *)
(*   merged         the list returned by extract_entries                   *)
(*   result         the 'entries' of the dict returned by parse()          *)
(*   pc             "scan", "extracted" (extract_entries returned),        *)
(*                  "done" (parse returned); "merge0".."merge2" for the    *)
(*                  specification of merge_duplicate_entries alone         *)
(* History variables, not read by any action:                              *)
(*   contrib        for each dict of heap, the indexes of the lines whose  *)
(*                  characters were put into its text                      *)
(*   opened         for each dict of heap, the index of the line at which  *)
(*                  it was created                                         *)
(*   resultFrom     the indexes of the lines behind each entry of result   *)
(*   disp           the classification of the line processed last          *)
(* For the specification of merge_duplicate_entries alone:                 *)
(*   mIn, mOnce, mTwice   an entry list, its merge, the merge of its merge *)
(***************************************************************************)
VARIABLES variant, lines, i, heap, entries, current_entry, in_content,
          merged, result, pc, contrib, opened, resultFrom, disp,
          mIn, mOnce, mTwice,
          vText, vOk,
          bFiles, bBad, bIdx, bYielded, bRaised,
          sN, sAll, sI, sFiles, sUnsplit

vars == <<variant, lines, i, heap, entries, current_entry, in_content,
          merged, result, pc, contrib, opened, resultFrom, disp,
          mIn, mOnce, mTwice,
          vText, vOk,
          bFiles, bBad, bIdx, bYielded, bRaised,
          sN, sAll, sI, sFiles, sUnsplit>>

mergeVars == <<mIn, mOnce, mTwice>>

\* the variables of extract_entries and parse
scanVars == <<variant, lines, i, heap, entries, current_entry, in_content,
              merged, result, contrib, opened, resultFrom, disp>>

\* the variables of the specifications of is_valid_entry alone (vText, vOk),
\* of the directory scan (b...) and of the split of main() (s...)
validVars == <<vText, vOk>>
batchVars == <<bFiles, bBad, bIdx, bYielded, bRaised>>
splitVars == <<sN, sAll, sI, sFiles, sUnsplit>>
pureVars == <<validVars, batchVars, splitVars>>

ValidIdle == vText = <<>> /\ vOk = FALSE
BatchIdle ==
    /\ bFiles = <<>> /\ bBad = {} /\ bIdx = 1
    /\ bYielded = <<>> /\ bRaised = FALSE
SplitIdle ==
    /\ sN = 0 /\ sAll = <<>> /\ sI = 0 /\ sFiles = <<>> /\ sUnsplit = FALSE
MergeIdle ==
    /\ mIn = <<>>
    /\ mOnce = [xml |-> <<>>, text |-> <<>>]
    /\ mTwice = [xml |-> <<>>, text |-> <<>>]
ScanIdle ==
    /\ lines = <<>> /\ i = 1 /\ heap = <<>> /\ entries = <<>>
    /\ current_entry = 0 /\ in_content = FALSE
    /\ merged = <<>> /\ result = <<>>
    /\ contrib = <<>> /\ opened = <<>> /\ resultFrom = <<>>
    /\ disp = [kind |-> "none", rule |-> "none", title |-> <<>>, text |-> <<>>]

NoDisposition == Disposition("none", "none", <<>>, <<>>)

\* the dicts a list of references denotes
Deref(h, refs) == [k \in 1..Len(refs) |-> h[refs[k]]]

\* faulty variant: the saved single-line entry stays the open entry
XmlAfterSingleKeepOpen(new) == new

\* current_entry = None, after a single-line entry was saved
XmlAfterSingle(new) == 0

\* faulty variant: the previous entry is not saved
XmlCloseForgets(es, cur) == es

\* entries.append(current_entry) under `if current_entry:`
XmlClose(es, cur) == IF cur # 0 THEN Append(es, cur) ELSE es

\* faulty variant: the open entry is saved without looking at its text
TextCloseUnchecked(es, cur, h) == IF cur # 0 THEN Append(es, cur) ELSE es

\* entries.append(current_entry) under
\* `if current_entry and current_entry['text']: if self.is_valid_entry(..)`
TextClose(es, cur, h) ==
    IF cur # 0 /\ h[cur].text # <<>> /\ is_valid_entry(h[cur].text)
    THEN Append(es, cur) ELSE es

\* faulty variant: the blank is added to an empty text too
TextAppendLineBlank(text, line_stripped) ==
    text \o <<" ">> \o line_stripped

\* if current_entry['text']: += ' ' + line_stripped  else: = line_stripped
TextAppendLine(text, line_stripped) ==
    IF text # <<>> THEN text \o <<" ">> \o line_stripped ELSE line_stripped

\* the lines behind each merged entry: those of the entries of its title
MergedFrom(v, es, cs, out) ==
    [k \in 1..Len(out) |->
        UNION {cs[j] : j \in {x \in 1..Len(es) :
                                NormalizeTitle(v, es[x].title) = out[k].title}}]

Init ==
    /\ variant \in {"xml", "text"}
    /\ \/ /\ variant = "xml"
          /\ \E raw \in SeqsUpTo(XmlRawLines, MaxLines) :
                 lines = XmlGetTextLines(raw)
       \/ /\ variant = "text"
          /\ \E raw \in SeqsUpTo(TextRawLines, MaxLines) :
                 lines = TextGetTextLines(raw)
    /\ i = 1
    /\ heap = <<>>
    /\ entries = <<>>
    /\ current_entry = 0
    /\ in_content = FALSE
    /\ merged = <<>>
    /\ result = <<>>
    /\ pc = "scan"
    /\ contrib = <<>>
    /\ opened = <<>>
    /\ resultFrom = <<>>
    /\ disp = NoDisposition
    /\ mIn = <<>>
    /\ mOnce = [xml |-> <<>>, text |-> <<>>]
    /\ mTwice = [xml |-> <<>>, text |-> <<>>]
    /\ ValidIdle /\ BatchIdle /\ SplitIdle

(***************************************************************************)
(* BritannicaParser (ALTO XML)                                             *)
(***************************************************************************)
\* one iteration of `for line in lines` of BritannicaParser.extract_entries
XmlLine ==
    /\ variant = "xml" /\ pc = "scan" /\ i <= Len(lines)
    /\ LET line == lines[i]
           d    == XmlClassify(line)
           new  == Len(heap) + 1
       IN  /\ disp' = d
           /\ CASE d.kind = "single" ->
                    /\ heap' = Append(heap, [title |-> d.title, text |-> d.text])
                    /\ contrib' = Append(contrib, {i})
                    /\ opened' = Append(opened, i)
                    /\ entries' = Append(XmlClose(entries, current_entry), new)
                    /\ current_entry' = XmlAfterSingle(new)
                [] d.kind = "title" ->
                    /\ heap' = Append(heap, [title |-> d.title, text |-> d.text])
                    /\ contrib' = Append(contrib, {i})
                    /\ opened' = Append(opened, i)
                    /\ entries' = XmlClose(entries, current_entry)
                    /\ current_entry' = new
                [] d.kind = "append" /\ current_entry # 0 ->
                    /\ heap' = [heap EXCEPT ![current_entry].text =
                                                AppendLine(@, line)]
                    /\ contrib' = [contrib EXCEPT ![current_entry] = @ \cup {i}]
                    /\ UNCHANGED <<entries, current_entry, opened>>
                [] OTHER ->
                    UNCHANGED <<heap, contrib, opened, entries, current_entry>>
    /\ i' = i + 1
    /\ UNCHANGED <<variant, lines, in_content, merged, result, pc,
                   resultFrom, mergeVars, pureVars>>

\* the end of BritannicaParser.extract_entries: the last entry is added and
\* the entries are merged
XmlFinish ==
    /\ variant = "xml" /\ pc = "scan" /\ i > Len(lines)
    /\ entries' = XmlClose(entries, current_entry)
    /\ merged' = XmlMergeDuplicateEntries(Deref(heap, entries'))
    /\ pc' = "extracted"
    /\ UNCHANGED <<variant, lines, i, heap, current_entry, in_content,
                   result, contrib, opened, resultFrom, disp, mergeVars, pureVars>>

Unknown == <<"U","n","k","n","o","w","n">>

\* faulty variant: the fallback entry is built without the test `if lines:`
XmlFallbackAlways(ls) == <<[title |-> Unknown, text |-> Join(ls, <<" ">>)]>>

\* if lines: entries = [{'title': 'Unknown', 'text': ' '.join(lines)}]
XmlFallback(ls) ==
    IF ls # <<>>
    THEN <<[title |-> Unknown, text |-> Join(ls, <<" ">>)]>>
    ELSE <<>>

\* BritannicaParser.parse after extract_entries
XmlParse ==
    /\ variant = "xml" /\ pc = "extracted"
    /\ IF merged = <<>>
       THEN /\ result' = XmlFallback(lines)
            /\ resultFrom' = [k \in 1..Len(result') |-> 1..Len(lines)]
       ELSE /\ result' = merged
            /\ resultFrom' = MergedFrom("xml", Deref(heap, entries),
                                        Deref(contrib, entries), merged)
    /\ pc' = "done"
    /\ UNCHANGED <<variant, lines, i, heap, entries, current_entry,
                   in_content, merged, contrib, opened, disp, mergeVars, pureVars>>

(***************************************************************************)
(* BritannicaTextParser (plain text)                                       *)
(***************************************************************************)
\* faulty variant: the saved single-line entry stays the open entry
TextAfterSingleKeepOpen(new, valid) == new

\* current_entry = None under `if self.is_valid_entry(current_entry['text'])`
TextAfterSingle(new, valid) == IF valid THEN 0 ELSE new

\* one iteration of `for line in lines` of
\* BritannicaTextParser.extract_entries
TextLine ==
    /\ variant = "text" /\ pc = "scan" /\ i <= Len(lines)
    /\ LET line == lines[i]
           line_stripped == Strip(line)
           d    == TextClassify(line)
           new  == Len(heap) + 1
           open == in_content /\ current_entry # 0
       IN  /\ disp' = d
           /\ CASE d.kind = "single" ->
                    /\ in_content' = TRUE
                    /\ heap' = Append(heap, [title |-> d.title, text |-> d.text])
                    /\ contrib' = Append(contrib, {i})
                    /\ opened' = Append(opened, i)
                    /\ entries' =
                           IF is_valid_entry(d.text)
                           THEN Append(TextClose(entries, current_entry, heap),
                                       new)
                           ELSE TextClose(entries, current_entry, heap)
                    /\ current_entry' =
                           TextAfterSingle(new, is_valid_entry(d.text))
                [] d.kind = "title" ->
                    /\ in_content' = TRUE
                    /\ heap' = Append(heap, [title |-> d.title, text |-> <<>>])
                    /\ contrib' = Append(contrib, {})
                    /\ opened' = Append(opened, i)
                    /\ entries' = TextClose(entries, current_entry, heap)
                    /\ current_entry' = new
                [] \/ d.kind = "append_any" /\ open
                   \/ d.kind = "append" /\ open /\ Len(line_stripped) > 2 ->
                    /\ heap' = [heap EXCEPT ![current_entry].text =
                                        TextAppendLine(@, line_stripped)]
                    /\ contrib' = [contrib EXCEPT ![current_entry] = @ \cup {i}]
                    /\ UNCHANGED <<entries, current_entry, in_content, opened>>
                [] OTHER ->
                    UNCHANGED <<heap, contrib, opened, entries, current_entry,
                                in_content>>
    /\ i' = i + 1
    /\ UNCHANGED <<variant, lines, merged, result, pc, resultFrom, mergeVars, pureVars>>

\* the end of BritannicaTextParser.extract_entries
TextFinish ==
    /\ variant = "text" /\ pc = "scan" /\ i > Len(lines)
    /\ entries' = TextClose(entries, current_entry, heap)
    /\ merged' = TextMergeDuplicateEntries(Deref(heap, entries'))
    /\ pc' = "extracted"
    /\ UNCHANGED <<variant, lines, i, heap, current_entry, in_content,
                   result, contrib, opened, resultFrom, disp, mergeVars, pureVars>>

\* faulty variant: lines of two characters are kept
ContentLineIndexesFrom2(ls) ==
    {k \in 1..Len(ls) : Strip(ls[k]) # <<>> /\ Len(Strip(ls[k])) >= 2}

\* [line for line in lines if line.strip() and len(line.strip()) > 2],
\* as the indexes of the lines kept
ContentLineIndexes(ls) ==
    {k \in 1..Len(ls) : Strip(ls[k]) # <<>> /\ Len(Strip(ls[k])) > 2}

\* the subsequence of ls at the indexes of idx
RECURSIVE Pick(_, _, _)
Pick(ls, idx, k) ==
    IF k > Len(ls) THEN <<>>
    ELSE (IF k \in idx THEN <<ls[k]>> ELSE <<>>) \o Pick(ls, idx, k + 1)

\* content_lines = [...]; if content_lines: entries = [{'title': 'Unknown',
\* 'text': ' '.join(content_lines)}]
TextFallback(ls) ==
    LET content_lines == Pick(ls, ContentLineIndexes(ls), 1)
    IN  IF content_lines # <<>>
        THEN <<[title |-> Unknown, text |-> Join(content_lines, <<" ">>)]>>
        ELSE <<>>

\* BritannicaTextParser.parse after extract_entries
TextParse ==
    /\ variant = "text" /\ pc = "extracted"
    /\ IF merged = <<>>
       THEN /\ result' = TextFallback(lines)
            /\ resultFrom' = [k \in 1..Len(result') |->
                                  ContentLineIndexes(lines)]
       ELSE /\ result' = merged
            /\ resultFrom' = MergedFrom("text", Deref(heap, entries),
                                        Deref(contrib, entries), merged)
    /\ pc' = "done"
    /\ UNCHANGED <<variant, lines, i, heap, entries, current_entry,
                   in_content, merged, contrib, opened, disp, mergeVars, pureVars>>

Next ==
    \/ XmlLine \/ XmlFinish \/ XmlParse
    \/ TextLine \/ TextFinish \/ TextParse

Spec == Init /\ [][Next]_vars

TypeOK ==
    /\ variant \in {"xml", "text"}
    /\ pc \in {"scan", "extracted", "done"}
    /\ i \in 1..(Len(lines) + 1)
    /\ current_entry \in 0..Len(heap)
    /\ Len(contrib) = Len(heap) /\ Len(opened) = Len(heap)
    /\ Len(resultFrom) = Len(result)
    /\ \A k \in 1..Len(entries) : entries[k] \in 1..Len(heap)

(***************************************************************************)
(* merge_duplicate_entries alone, on arbitrary entry lists.  The titles    *)
(* are "A" followed by up to MaxTrail blanks and commas, "A." and "A .",   *)
(* and "B".                                                                *)
(* The function never reads a text, it only concatenates texts, so the     *)
(* k-th entry carries the text of k letters "x": the texts of a list are   *)
(* pairwise different and a merged text shows which texts it was made of   *)
(* and in which order.  Both parsers' copies of the function are run on    *)
(* the same list: mOnce and mTwice are records with one field per parser.  *)
(***************************************************************************)
MergeTitles ==
    {<<"A">> \o t : t \in SeqsUpTo({" ", ","}, MaxTrail)}
        \cup {<<"A", ".">>, <<"A", " ", ".">>, <<"B">>}
MergeText(k) == [j \in 1..k |-> "x"]
MergeLists(n) ==
    {[k \in 1..Len(ts) |-> [title |-> ts[k], text |-> MergeText(k)]] :
        ts \in SeqsUpTo(MergeTitles, n)}

InitMerge ==
    /\ variant = "merge"
    /\ lines = <<>> /\ i = 1 /\ heap = <<>> /\ entries = <<>>
    /\ current_entry = 0 /\ in_content = FALSE
    /\ merged = <<>> /\ result = <<>>
    /\ contrib = <<>> /\ opened = <<>> /\ resultFrom = <<>>
    /\ disp = NoDisposition
    /\ pc = "merge0"
    /\ mIn \in MergeLists(MaxEntries)
    /\ mOnce = [xml |-> <<>>, text |-> <<>>]
    /\ mTwice = [xml |-> <<>>, text |-> <<>>]
    /\ ValidIdle /\ BatchIdle /\ SplitIdle

\* entries = self.merge_duplicate_entries(entries)
MergeOnce ==
    /\ pc = "merge0"
    /\ mOnce' = [xml  |-> XmlMergeDuplicateEntries(mIn),
                 text |-> TextMergeDuplicateEntries(mIn)]
    /\ pc' = "merge1"
    /\ UNCHANGED <<variant, lines, i, heap, entries, current_entry,
                   in_content, merged, result, contrib, opened, resultFrom, disp,
                   mIn, mTwice, pureVars>>

\* the function applied to its own result
MergeTwice ==
    /\ pc = "merge1"
    /\ mTwice' = [xml  |-> XmlMergeDuplicateEntries(mOnce.xml),
                  text |-> TextMergeDuplicateEntries(mOnce.text)]
    /\ pc' = "merge2"
    /\ UNCHANGED <<variant, lines, i, heap, entries, current_entry,
                   in_content, merged, result, contrib, opened, resultFrom, disp,
                   mIn, mOnce, pureVars>>

NextMerge == MergeOnce \/ MergeTwice

SpecMerge == InitMerge /\ [][NextMerge]_vars

(***************************************************************************)
(* The same parsers on documents made to reach every branch of the line    *)
(* classification: up to MaxLines - 1 lines that open, fill and close      *)
(* entries, followed by at most one line of any shape.                     *)
(***************************************************************************)
\* "the science of plants and their uses."
L_Science ==
    <<<<"t","h","e">>, <<"s","c","i","e","n","c","e">>, <<"o","f">>,
      <<"p","l","a","n","t","s">>, <<"a","n","d">>,
      <<"t","h","e","i","r">>, <<"u","s","e","s",".">>>>
\* "ARTS,"
L_Arts ==
    <<<<"A","R","T","S",",">>>>
\* "A B,"
L_AB ==
    <<<<"A">>, <<"B",",">>>>
\* "THE A B C D E F G H I J K,"
L_Spaced ==
    <<<<"T","H","E">>, <<"A">>, <<"B">>, <<"C">>, <<"D">>, <<"E">>,
      <<"F">>, <<"G">>, <<"H">>, <<"I">>, <<"J">>, <<"K",",">>>>
\* "THE A B C D E F G H I J K, of old."
L_SpacedOne ==
    <<<<"T","H","E">>, <<"A">>, <<"B">>, <<"C">>, <<"D">>, <<"E">>,
      <<"F">>, <<"G">>, <<"H">>, <<"I">>, <<"J">>, <<"K",",">>,
      <<"o","f">>, <<"o","l","d",".">>>>
\* "H MAGNETISM,"
L_HMagnetism ==
    <<<<"H">>, <<"M","A","G","N","E","T","I","S","M",",">>>>
\* "H MAGNETISM, the force."
L_HMagnetismOne ==
    <<<<"H">>, <<"M","A","G","N","E","T","I","S","M",",">>,
      <<"t","h","e">>, <<"f","o","r","c","e",".">>>>
\* "M, ANIMAL,"
L_MAnimal ==
    <<<<"M",",">>, <<"A","N","I","M","A","L",",">>>>
\* "A B, the force."
L_ABOne ==
    <<<<"A">>, <<"B",",">>, <<"t","h","e">>, <<"f","o","r","c","e",".">>>>
\* "BOTANY, a."
L_BotanyShort == <<<<"B","O","T","A","N","Y",",">>, <<"a",".">>>>

SetupLines == {L_Algebra, L_Science, L_Botany, L_AlgebraOne}

ProbeLines ==
    SetupLines \cup {L_H, L_Arts, L_AB, L_Spaced, L_SpacedOne, L_HMagnetism,
                     L_HMagnetismOne, L_MAnimal, L_Ab, L_Banner,
                     L_ABOne, L_BotanyShort}

TitleDocs ==
    {pre \o last : pre \in SeqsUpTo(SetupLines, MaxLines - 1),
                   last \in SeqsUpTo(ProbeLines, 1)}

InitTitles ==
    /\ variant \in {"xml", "text"}
    /\ \E raw \in TitleDocs :
          lines = IF variant = "xml" THEN XmlGetTextLines(raw)
                  ELSE TextGetTextLines(
                           [k \in 1..Len(raw) |-> Join(raw[k], <<" ">>)])
    /\ i = 1
    /\ heap = <<>>
    /\ entries = <<>>
    /\ current_entry = 0
    /\ in_content = FALSE
    /\ merged = <<>>
    /\ result = <<>>
    /\ pc = "scan"
    /\ contrib = <<>>
    /\ opened = <<>>
    /\ resultFrom = <<>>
    /\ disp = NoDisposition
    /\ MergeIdle /\ ValidIdle /\ BatchIdle /\ SplitIdle

SpecTitles == InitTitles /\ [][Next]_vars

(***************************************************************************)
(* is_valid_entry alone: the text is a list of up to MaxWords words joined *)
(* by single blanks (an empty word gives leading, trailing and doubled     *)
(* blanks).                                                                *)
(***************************************************************************)
MaxWords == 5

W_the == <<"t","h","e">>
W_end == <<"e","n","d",".">>
W_of == <<"o","f">>
W_mathematics == <<"m","a","t","h","e","m","a","t","i","c","s">>
W_no1 == <<"n","o",".","1">>
W_empty == <<>>

ValidWords == {W_the, W_end, W_of, W_mathematics, W_no1, W_empty}
ValidTexts(n) == {Join(ws, <<" ">>) : ws \in SeqsUpTo(ValidWords, n)}

InitValid ==
    /\ variant = "valid"
    /\ pc = "valid0"
    /\ ScanIdle /\ MergeIdle /\ BatchIdle /\ SplitIdle
    /\ vText \in ValidTexts(MaxWords)
    /\ vOk = FALSE

\* self.is_valid_entry(text)
Validate ==
    /\ pc = "valid0"
    /\ vOk' = is_valid_entry(vText)
    /\ pc' = "valid1"
    /\ UNCHANGED <<scanVars, mergeVars, vText, batchVars, splitVars>>

NextValid == Validate

SpecValid == InitValid /\ [][NextValid]_vars

(***************************************************************************)
(* parse_britannica_directory / parse_britannica_text_directory: the files *)
(* the glob finds are numbers (their order is the order of the paths), and *)
(* parsing a file either returns or raises.  bBad holds <<file, error>>    *)
(* for the files whose parsing raises.                                     *)
(***************************************************************************)
MaxFiles == 3

FileErrors == {"ParseError", "OSError"}

RECURSIVE Sorted(_)
\* sorted(directory.glob(pattern))
Sorted(S) ==
    IF S = {} THEN <<>>
    ELSE LET m == CHOOSE x \in S : \A y \in S : x <= y
         IN  <<m>> \o Sorted(S \ {m})

\* the error parse_britannica_file(f) raises, "none" when it returns
ErrorOf(bad, f) ==
    IF \E e \in FileErrors : <<f, e>> \in bad
    THEN CHOOSE e \in FileErrors : <<f, e>> \in bad
    ELSE "none"

InitBatch ==
    /\ variant = "batch"
    /\ pc = "batch"
    /\ ScanIdle /\ MergeIdle /\ ValidIdle /\ SplitIdle
    /\ \E found \in SUBSET (1..MaxFiles) :
           /\ bFiles = Sorted(found)
           /\ \E err \in [found -> FileErrors \cup {"none"}] :
                  bBad = {<<f, err[f]>> : f \in {g \in found : err[g] # "none"}}
    /\ bIdx = 1
    /\ bYielded = <<>>
    /\ bRaised = FALSE

\* faulty variant: except ET.ParseError
ExceptParseError(error) == error = "ParseError"

\* except Exception as e: both errors are subclasses of Exception
ExceptException(error) == error \in FileErrors

\* yield parse_britannica_file(str(xml_file))
BatchYield ==
    /\ pc = "batch"
    /\ bIdx <= Len(bFiles)
    /\ ErrorOf(bBad, bFiles[bIdx]) = "none"
    /\ bYielded' = Append(bYielded, bFiles[bIdx])
    /\ bIdx' = bIdx + 1
    /\ UNCHANGED <<scanVars, pc, mergeVars, validVars, bFiles, bBad, bRaised,
                   splitVars>>

\* parse_britannica_file raises: the handler prints and the loop goes on; an
\* error the handler does not catch leaves the generator
BatchFail ==
    /\ pc = "batch"
    /\ bIdx <= Len(bFiles)
    /\ ErrorOf(bBad, bFiles[bIdx]) # "none"
    /\ IF ExceptException(ErrorOf(bBad, bFiles[bIdx]))
       THEN /\ bIdx' = bIdx + 1
            /\ UNCHANGED <<pc, bRaised>>
       ELSE /\ bRaised' = TRUE
            /\ pc' = "batch_done"
            /\ UNCHANGED bIdx
    /\ UNCHANGED <<scanVars, mergeVars, validVars, bFiles, bBad, bYielded,
                   splitVars>>

\* the loop is over: the generator is exhausted
BatchEnd ==
    /\ pc = "batch"
    /\ bIdx > Len(bFiles)
    /\ pc' = "batch_done"
    /\ UNCHANGED <<scanVars, mergeVars, validVars, batchVars, splitVars>>

NextBatch == BatchYield \/ BatchFail \/ BatchEnd

SpecBatch == InitBatch /\ [][NextBatch]_vars

(***************************************************************************)
(* The split of main(): args.split is any integer (--split has type=int),  *)
(* all_entries is the flattened list; an entry is its position in it.      *)
(***************************************************************************)
MaxSplitN == 4
MaxSplitLen == 6

InitSplit ==
    /\ variant = "split"
    /\ pc = "split"
    /\ ScanIdle /\ MergeIdle /\ ValidIdle /\ BatchIdle
    /\ sN \in (0 - MaxSplitN)..MaxSplitN
    /\ \E L \in 0..MaxSplitLen : sAll = [k \in 1..L |-> k]
    /\ sI = 0
    /\ sFiles = <<>>
    /\ sUnsplit = FALSE

\* i is an element of range(start, stop, step) that begins at i
RangeHas(idx, stop, step) ==
    IF step > 0 THEN idx < stop ELSE idx > stop

\* all_entries[a:b] for 0 <= a and a <= b
Slice(xs, a, b) ==
    SubSeq(xs, a + 1, IF b < Len(xs) THEN b ELSE Len(xs))

\* one pass of `for i in range(0, len(all_entries), args.split)`
SplitChunk ==
    /\ pc = "split"
    /\ sN # 0
    /\ RangeHas(sI, Len(sAll), sN)
    /\ sFiles' = Append(sFiles, [num   |-> (sI \div sN) + 1,
                                 chunk |-> Slice(sAll, sI, sI + sN)])
    /\ sI' = sI + sN
    /\ UNCHANGED <<scanVars, pc, mergeVars, validVars, batchVars,
                   sN, sAll, sUnsplit>>

\* the range is exhausted
SplitEnd ==
    /\ pc = "split"
    /\ sN # 0
    /\ ~RangeHas(sI, Len(sAll), sN)
    /\ pc' = "split_done"
    /\ UNCHANGED <<scanVars, mergeVars, validVars, batchVars, splitVars>>

\* `if args.split:` is false for 0: the else branch dumps output_data to
\* args.json_output
WriteUnsplit ==
    /\ pc = "split"
    /\ sN = 0
    /\ sUnsplit' = TRUE
    /\ pc' = "split_done"
    /\ UNCHANGED <<scanVars, mergeVars, validVars, batchVars,
                   sN, sAll, sI, sFiles>>

NextSplit == SplitChunk \/ SplitEnd \/ WriteUnsplit

SpecSplit == InitSplit /\ [][NextSplit]_vars

(***************************************************************************)
(* Properties.                                                             *)
(***************************************************************************)
Blank == <<" ">>
T_ALGEBRA == <<"A","L","G","E","B","R","A">>

IsPrefix(p, t) == Len(p) <= Len(t) /\ SubSeq(t, 1, Len(p)) = p

\* the lines of a document with more than 2 characters after trimming
NonTrivialLines(ls) == SelectSeq(ls, LAMBDA l : Len(Strip(l)) > 2)

\* trim, then strip trailing commas and periods
TrimStripPunct(t) == RStrip(Strip(t), {",", "."})

DocC1 == <<Join(L_Algebra, Blank), Join(L_Branch, Blank),
           Join(L_Symbols, Blank)>>
\* "ALGEBRA, a branch of mathematics dealing with symbols and equations."
TextC1 ==
    <<"A","L","G","E","B","R","A",","," ","a"," ","b","r","a","n","c","h",
      " ","o","f"," ","m","a","t","h","e","m","a","t","i","c","s"," ","d",
      "e","a","l","i","n","g"," ","w","i","t","h"," ","s","y","m","b","o",
      "l","s"," ","a","n","d"," ","e","q","u","a","t","i","o","n","s",".">>
\* "a branch of mathematics dealing with symbols and equations."
TextC1Body ==
    <<"a"," ","b","r","a","n","c","h"," ","o","f"," ","m","a","t","h","e",
      "m","a","t","i","c","s"," ","d","e","a","l","i","n","g"," ","w","i",
      "t","h"," ","s","y","m","b","o","l","s"," ","a","n","d"," ","e","q",
      "u","a","t","i","o","n","s",".">>

\* C1 as stated: for the lines "ALGEBRA,", "a branch of mathematics
\* dealing", "with symbols and equations." both parsers return exactly one
\* entry, titled "ALGEBRA", whose text is "ALGEBRA, a branch of mathematics
\* dealing with symbols and equations."
C1_Original ==
    (pc = "done" /\ lines = DocC1) =>
        result = <<[title |-> T_ALGEBRA, text |-> TextC1]>>

\* C1 (amended): for these lines both parsers return exactly one entry,
\* titled "ALGEBRA"; its text is "ALGEBRA, a branch of mathematics dealing
\* with symbols and equations." in the ALTO-XML parser and, the title line
\* contributing nothing, "a branch of mathematics dealing with symbols and
\* equations." in the plain-text parser
C1_Amended ==
    (pc = "done" /\ lines = DocC1) =>
        /\ Len(result) = 1
        /\ result[1].title = T_ALGEBRA
        /\ variant = "xml" => result[1].text = TextC1
        /\ variant = "text" => result[1].text = TextC1Body

C1_Witness ==
    pc = "done" /\ lines = DocC1 /\ variant = "text" /\ Len(result) = 1

DocC2 == <<Join(L_AlgebraOne, Blank), Join(L_Deals, Blank)>>
\* "ALGEBRA, a branch of mathematics. It deals with symbols."
TextC2 ==
    <<"A","L","G","E","B","R","A",","," ","a"," ","b","r","a","n","c","h",
      " ","o","f"," ","m","a","t","h","e","m","a","t","i","c","s","."," ",
      "I","t"," ","d","e","a","l","s"," ","w","i","t","h"," ","s","y","m",
      "b","o","l","s",".">>
\* "ALGEBRA, a branch of mathematics."
TextC2Xml ==
    <<"A","L","G","E","B","R","A",","," ","a"," ","b","r","a","n","c","h",
      " ","o","f"," ","m","a","t","h","e","m","a","t","i","c","s",".">>
\* "a branch of mathematics. It deals with symbols."
TextC2Text ==
    <<"a"," ","b","r","a","n","c","h"," ","o","f"," ","m","a","t","h","e",
      "m","a","t","i","c","s","."," ","I","t"," ","d","e","a","l","s"," ",
      "w","i","t","h"," ","s","y","m","b","o","l","s",".">>

\* C2 as stated: for the lines "ALGEBRA, a branch of mathematics.", "It
\* deals with symbols." both parsers return exactly one entry, titled
\* "ALGEBRA", whose text starts with "ALGEBRA, a branch of mathematics. It
\* deals with symbols."
C2_Original ==
    (pc = "done" /\ lines = DocC2) =>
        /\ Len(result) = 1
        /\ result[1].title = T_ALGEBRA
        /\ IsPrefix(TextC2, result[1].text)

\* C2 (amended): for these lines both parsers return exactly one entry,
\* titled "ALGEBRA".  In the ALTO-XML parser its text is the first line
\* alone, "ALGEBRA, a branch of mathematics.": the single-line entry is
\* closed at once and the second line is discarded.  In the plain-text
\* parser its text is "a branch of mathematics. It deals with symbols.":
\* the title is not part of the text, and the inline text alone fails the
\* validator, so the entry stays open and takes the second line.
C2_Amended ==
    (pc = "done" /\ lines = DocC2) =>
        /\ Len(result) = 1
        /\ result[1].title = T_ALGEBRA
        /\ variant = "xml" => result[1].text = TextC2Xml
        /\ variant = "text" => result[1].text = TextC2Text

C2_Witness ==
    pc = "done" /\ lines = DocC2 /\ variant = "xml" /\ Len(result) = 1

\* C3: merging is idempotent: for every entry list, merging the merged list
\* again gives the merged list (same length, order, titles and texts), in
\* both parsers
C3_Idempotent ==
    pc = "merge2" => mTwice = mOnce

\* titles of an entry list
TitlesOf(es) == [k \in 1..Len(es) |-> es[k].title]
\* normalized titles of the input list of the merger
NormalizedIn == [k \in 1..Len(mIn) |-> TrimStripPunct(mIn[k].title)]
\* positions at which a normalized title occurs for the first time
FirstOccurrences(ts) ==
    {k \in 1..Len(ts) : \A j \in 1..(k - 1) : ts[j] # ts[k]}

\* C4: the merger returns one entry per distinct normalized title, in the
\* order of the first input entry of each normalized title; merging a later
\* entry into an earlier one does not move the entries of other titles
C4_FirstOccurrenceOrder ==
    pc = "merge1" =>
        \A v \in {"xml", "text"} :
            TitlesOf(mOnce[v]) =
                Pick(NormalizedIn, FirstOccurrences(NormalizedIn), 1)

\* [A, B, A] gives [A, B]
C4_Witness ==
    /\ pc = "merge1"
    /\ TitlesOf(mIn) = <<<<"A">>, <<"B">>, <<"A">>>>
    /\ TitlesOf(mOnce.xml) = <<<<"A">>, <<"B">>>>

\* C5: the text of a merged entry is the texts of the input entries of its
\* normalized title, in input order, joined by one blank, and its title is
\* that normalized title; an entry whose normalized title is unique keeps
\* its text
C5_GroupTexts ==
    pc = "merge1" =>
        \A v \in {"xml", "text"} :
            \A k \in 1..Len(mOnce[v]) :
                LET group == {j \in 1..Len(mIn) :
                                 NormalizedIn[j] = mOnce[v][k].title}
                    texts == [j \in 1..Len(mIn) |-> mIn[j].text]
                IN  /\ group # {}
                    /\ mOnce[v][k].text = Join(Pick(texts, group, 1), Blank)

\* ["A" x, "B" xx, "A." xxx] gives ["A" "x xxx", "B" "xx"]
C5_Witness ==
    /\ pc = "merge1"
    /\ TitlesOf(mIn) = <<<<"A">>, <<"B">>, <<"A", ".">>>>
    /\ mOnce.text = <<[title |-> <<"A">>, text |-> <<"x"," ","x","x","x">>],
                      [title |-> <<"B">>, text |-> <<"x","x">>]>>

\* C6: every entry of the list before merging is one open/close cycle: its
\* text is made only of lines from the line that opened it up to, but not
\* including, the next line accepted as a title; no entry is in the list
\* twice and no line is in the text of two entries
C6_OneCycle ==
    /\ \A a \in 1..Len(entries) :
          \A l \in contrib[entries[a]] :
              /\ opened[entries[a]] <= l
              /\ \A h \in 1..Len(heap) :
                    ~(opened[entries[a]] < opened[h] /\ opened[h] <= l)
    /\ \A a, b \in 1..Len(entries) :
          a # b => /\ entries[a] # entries[b]
                   /\ contrib[entries[a]] \cap contrib[entries[b]] = {}

C6_Witness ==
    /\ pc = "extracted"
    /\ Len(entries) = 2
    /\ Cardinality(contrib[entries[1]]) = 2

\* C7: every entry of the list before merging has non-empty text; an entry
\* whose text is still empty when it is closed is not in the list
C7_NonEmptyText ==
    /\ \A a \in 1..Len(entries) : heap[entries[a]].text # <<>>
    /\ pc \in {"extracted", "done"} =>
          \A h \in 1..Len(heap) :
              heap[h].text = <<>> => \A a \in 1..Len(entries) : entries[a] # h

\* an entry opened by a title line was closed with empty text and dropped,
\* next to an entry that was emitted
C7_Witness ==
    /\ pc = "extracted"
    /\ variant = "text"
    /\ entries # <<>>
    /\ \E h \in 1..Len(heap) : heap[h].text = <<>>

\* C8: in the plain-text parser a line that contains one of the header
\* patterns contributes to the text of no entry returned by parse(), be it
\* a segmented entry or the "Unknown" entry
C8_HeadersNeverContribute ==
    (pc = "done" /\ variant = "text") =>
        \A k \in 1..Len(result) :
            \A l \in resultFrom[k] : ~IsHeaderLine(Strip(lines[l]))

\* C9 as stated: when extract_entries returns no entry, parse() returns the
\* single entry "Unknown" whose text is the non-trivial lines joined by one
\* blank
C9_Original ==
    (pc = "done" /\ merged = <<>>) =>
        result = <<[title |-> Unknown,
                    text  |-> Join(NonTrivialLines(lines), Blank)]>>

\* C9 (amended): when extract_entries returns no entry, parse() returns an
\* empty list if the fallback has no line to use, and otherwise the single
\* entry "Unknown" whose text is the lines used, in document order, joined
\* by one blank; the plain-text parser uses the non-trivial lines (more
\* than 2 characters after trimming), the ALTO-XML parser uses all lines
C9_Amended ==
    (pc = "done" /\ merged = <<>>) =>
        LET used == IF variant = "text" THEN NonTrivialLines(lines)
                    ELSE lines
        IN  IF used = <<>> THEN result = <<>>
            ELSE result = <<[title |-> Unknown, text |-> Join(used, Blank)]>>

\* the fallback of the plain-text parser leaves a trivial line out
C9_Witness ==
    /\ pc = "done" /\ variant = "text" /\ merged = <<>>
    /\ Len(result) = 1
    /\ Len(NonTrivialLines(lines)) < Len(SelectSeq(lines, LAMBDA l : l # <<>>))

\* C10 as stated: parse() returns an empty list exactly when the document
\* has no non-trivial line
C10_Original ==
    pc = "done" => (result = <<>> <=> NonTrivialLines(lines) = <<>>)

\* C10 (amended): the plain-text parser returns an empty list exactly when
\* the document has no non-trivial line, the ALTO-XML parser exactly when
\* the document has no line at all; in both, a document with a non-trivial
\* line gives at least one entry
C10_Amended ==
    pc = "done" =>
        /\ variant = "text" =>
              (result = <<>> <=> NonTrivialLines(lines) = <<>>)
        /\ variant = "xml" => (result = <<>> <=> lines = <<>>)
        /\ NonTrivialLines(lines) # <<>> => result # <<>>

\* a document of trivial lines only, for which nothing is returned
C10_Witness ==
    pc = "done" /\ lines # <<>> /\ result = <<>>

(***************************************************************************)
(* Properties of one step of the loop of extract_entries.                  *)
(***************************************************************************)
\* a line is about to be processed
ScanStep == pc = "scan" /\ i <= Len(lines)

\* the line as the parser of variant v reads it
ReadLine(v, line) == IF v = "xml" THEN line ELSE Strip(line)

\* the match of the title-only pattern of variant v and the title taken
TitleOnlyMatch(v, line) ==
    IF v = "xml" THEN XmlTitleMatch(line) ELSE TextTitleMatch(Strip(line))
TitleOnlyTitle(v, line) ==
    RStrip(Strip(TitleOnlyMatch(v, line).g1), {",", "."})

\* the text of a span after a line was added to it as a continuation
AsContinuation(v, text, line) ==
    IF v = "text" /\ text = <<>> THEN Strip(line)
    ELSE text \o <<" ">> \o ReadLine(v, line)

\* the step neither opens nor closes an entry
NothingOpenedOrClosed ==
    /\ entries' = entries
    /\ current_entry' = current_entry
    /\ Len(heap') = Len(heap)

\* the step adds the line to the open span
LineAppended ==
    heap' = [heap EXCEPT ![current_entry].text =
                             AsContinuation(variant, @, lines[i])]

\* a line that matches the title-only pattern with a title of fewer than 5
\* characters, or the line "H"
ShortTitleLine(v, line) ==
    \/ /\ TitleOnlyMatch(v, line).ok
       /\ Len(TitleOnlyTitle(v, line)) < 5
    \/ Strip(line) = <<"H">>

\* C11 as stated: a line that matches the title-only pattern with a title
\* of fewer than 5 characters (in particular the line "H") never opens an
\* entry and never closes the open span; it is appended to the open span
\* when one is open and discarded otherwise
C11_Original ==
    [][(ScanStep /\ ShortTitleLine(variant, lines[i])) =>
          /\ NothingOpenedOrClosed
          /\ IF current_entry # 0 THEN LineAppended ELSE heap' = heap]_vars

\* a short-title line that is dropped although a span is open: the title
\* starts with a single capital followed by a blank or a comma and the line
\* does not match the single-line pattern, or (plain text) the trimmed line
\* has at most 2 characters
ShortTitleDropped(v, line) ==
    \/ /\ ~SingleLineMatch(ReadLine(v, line)).ok
       /\ TitleOnlyMatch(v, line).ok
       /\ \/ SingleLetterSpace(TitleOnlyTitle(v, line))
          \/ SingleLetterComma(TitleOnlyTitle(v, line))
    \/ v = "text" /\ Len(Strip(line)) <= 2

\* C11 (amended): such a line never opens an entry and never closes the
\* open span.  When a span is open the line is appended to it, except that
\* it is dropped when it does not match the single-line pattern and its
\* title starts with a single capital followed by a blank or a comma, and,
\* in the plain-text parser, when the trimmed line has at most 2 characters
\* (the line "H"); when no span is open it is discarded
C11_Amended ==
    [][(ScanStep /\ ShortTitleLine(variant, lines[i])) =>
          /\ NothingOpenedOrClosed
          /\ IF current_entry # 0 /\ ~ShortTitleDropped(variant, lines[i])
             THEN LineAppended ELSE heap' = heap]_vars

\* "ARTS," was added to the open span
C11_Witness ==
    /\ disp.rule = "title_short"
    /\ current_entry # 0
    /\ (i - 1) \in contrib[current_entry]

\* the title of the first pattern the line matches has more than 10 blanks
SpacedTitleLine(v, line) ==
    IF SingleLineMatch(ReadLine(v, line)).ok
    THEN CountSpaces(Strip(SingleLineMatch(ReadLine(v, line)).g1)) > 10
    ELSE /\ TitleOnlyMatch(v, line).ok
         /\ CountSpaces(TitleOnlyTitle(v, line)) > 10

\* C12: a title with 11 or more blanks is never accepted, for either line
\* shape and either parser: no entry ever gets such a title, and a line
\* that carries one opens no entry and leaves the open span open
C12_SpacedTitleRejected ==
    [][ScanStep =>
          /\ SpacedTitleLine(variant, lines[i]) => NothingOpenedOrClosed
          /\ Len(heap') > Len(heap) =>
                 CountSpaces(heap'[Len(heap')].title) <= 10]_vars

\* a line with a title of 11 blanks was met while a span was open, and the
\* span is still open
C12_Witness ==
    /\ disp.rule \in {"single_spacing", "title_spacing"}
    /\ current_entry # 0
    /\ entries = <<>>

(***************************************************************************)
(* Properties of is_valid_entry.                                           *)
(***************************************************************************)
Letters == Upper \cup Lower

\* the word tokens of 3 or more letters of a text, as strings
WordTokens(text) ==
    {SubSeq(text, k, RunEnd(text, k)) : k \in WordRuns(text, Letters)}

\* C13 as stated: is_valid_entry is true only if the trimmed text has at
\* least 20 characters, the text has a sentence end followed by white space
\* or the end of the text, and the text has at least 5 distinct word tokens
\* of 3 or more letters
C13_Original ==
    (pc = "valid1" /\ vOk) =>
        /\ Len(Strip(vText)) >= 20
        /\ HasSentenceEnd(vText)
        /\ Cardinality(WordTokens(vText)) >= 5

\* C13 (amended): is_valid_entry is true only if the trimmed text has at
\* least 20 characters, the text has a sentence end followed by white space
\* or the end of the text, and the text has at least 5 word tokens of 3 or
\* more letters, a repeated word counting each time; no text whose trimmed
\* length is below 20 is accepted, and a text made of repetitions of fewer
\* than 5 distinct words is accepted when it meets the three conditions
C13_Amended ==
    pc = "valid1" =>
        /\ vOk => /\ Len(Strip(vText)) >= 20
                  /\ HasSentenceEnd(vText)
                  /\ CountWords(vText, Letters) >= 5
        /\ Len(Strip(vText)) < 20 => ~vOk
        /\ (/\ Cardinality(WordTokens(vText)) < 5
            /\ CountWords(vText, Letters) >= 5
            /\ HasSentenceEnd(vText)
            /\ Len(Strip(vText)) >= 20) => vOk

\* "the the the the end." was accepted: 5 tokens, 2 distinct words
C13_Witness ==
    /\ pc = "valid1"
    /\ vOk
    /\ vText = Join(<<W_the, W_the, W_the, W_the, W_end>>, <<" ">>)

\* the line, as the parser reads it, starts with a single capital followed
\* by white space or a comma, and so does any title taken from it
LetterTitleLine(v, line) ==
    /\ Len(ReadLine(v, line)) >= 2
    /\ ReadLine(v, line)[1] \in Upper
    /\ ReadLine(v, line)[2] \in Whitespace \cup {","}

\* C14: a title that starts with a single capital followed by a blank or a
\* comma ("H MAGNETISM", "M, ANIMAL") is never accepted: no entry ever gets
\* such a title, and the line opens no entry and closes no span
C14_LetterTitleRejected ==
    [][ScanStep =>
          /\ LetterTitleLine(variant, lines[i]) => NothingOpenedOrClosed
          /\ Len(heap') > Len(heap) =>
                 LET title == heap'[Len(heap')].title
                 IN  ~(/\ Len(title) >= 2
                       /\ title[1] \in Upper
                       /\ title[2] \in Whitespace \cup {","})]_vars

\* "H MAGNETISM," or "M, ANIMAL," was met while a span was open, and the
\* span is still open
C14_Witness ==
    /\ disp.rule \in {"single_letter", "title_letter"}
    /\ i > 1 /\ Len(lines[i - 1]) > 5
    /\ current_entry # 0
    /\ entries = <<>>

(***************************************************************************)
(* Properties of the directory scan.                                       *)
(***************************************************************************)
\* the files among the first n of the sorted list whose parsing returns
RECURSIVE GoodFiles(_)
GoodFiles(n) ==
    IF n = 0 THEN <<>>
    ELSE IF \E e \in FileErrors : <<bFiles[n], e>> \in bBad
         THEN GoodFiles(n - 1)
         ELSE Append(GoodFiles(n - 1), bFiles[n])

\* C15: a failure while parsing a file does not abort the scan: no
\* exception reaches the caller, the file is skipped, and the results of
\* all the other files are yielded in sorted file order
C15_BatchSurvivesFailures ==
    /\ ~bRaised
    /\ pc = "batch" => bYielded = GoodFiles(bIdx - 1)
    /\ pc = "batch_done" => bYielded = GoodFiles(Len(bFiles))

\* the scan is over, a file failed and a later file was yielded
C15_Witness ==
    /\ pc = "batch_done"
    /\ \E k \in 1..Len(bFiles) :
           /\ \E e \in FileErrors : <<bFiles[k], e>> \in bBad
           /\ \E j \in (k + 1)..Len(bFiles) :
                  bYielded # <<>> /\ bYielded[Len(bYielded)] = bFiles[j]

(***************************************************************************)
(* Properties of the split.                                                *)
(***************************************************************************)
RECURSIVE ChunksUpTo(_)
\* the entries of the first n numbered files, one file after the other
ChunksUpTo(n) ==
    IF n = 0 THEN <<>> ELSE ChunksUpTo(n - 1) \o sFiles[n].chunk

\* C16: with --split N, for every integer N, the files written are numbered
\* 1, 2, ..., each holds at most N entries, and the entries of the files in
\* the order of their numbers are the flattened entries in their order
C16_SplitPartition ==
    pc = "split_done" =>
        /\ \A k \in 1..Len(sFiles) :
               sFiles[k].num = k /\ Len(sFiles[k].chunk) <= sN
        /\ ChunksUpTo(Len(sFiles)) = sAll

(***************************************************************************)
(* Properties of the dispositions of extract_entries.                      *)
(***************************************************************************)
Classify(v, line) ==
    IF v = "xml" THEN XmlClassify(line) ELSE TextClassify(line)

\* a span is open and the line is neither noise (an empty line or a header
\* line of the plain-text parser) nor accepted as a title line
ContinuationStep ==
    /\ ScanStep
    /\ current_entry # 0
    /\ Classify(variant, lines[i]).kind \notin {"single", "title"}
    /\ Classify(variant, lines[i]).rule \notin {"empty", "header"}

\* C17 as stated: whenever a span is open and the next line is not accepted
\* as a title line, the text of the span after the step is its text before
\* the step, one blank and the line; no such line is dropped
C17_Original ==
    [][ContinuationStep =>
          heap'[current_entry].text =
              heap[current_entry].text \o <<" ">>
                  \o ReadLine(variant, lines[i])]_vars

\* the lines the loop leaves with `continue`, and the lines too short for
\* the continuation branch of the plain-text parser
LineDropped(v, line) ==
    \/ Classify(v, line).rule \in {"title_letter", "title_spacing"}
    \/ /\ v = "text"
       /\ Classify(v, line).kind = "append"
       /\ Len(Strip(line)) <= 2

\* C17 (amended): whenever a span is open and the next line is not accepted
\* as a title line, the span stays open and its text after the step is its
\* text before the step, one blank and the line (plain text: the trimmed
\* line, and no blank while the text is empty), except that the line is
\* dropped when the title-only test rejects it for a title that starts with
\* a single capital or has more than 10 blanks, and, in the plain-text
\* parser, when its trimmed length is at most 2
C17_Amended ==
    [][ContinuationStep =>
          /\ NothingOpenedOrClosed
          /\ IF LineDropped(variant, lines[i])
             THEN heap' = heap
             ELSE LineAppended]_vars

\* the first continuation line of a plain-text span was added to its text
C17_Witness ==
    /\ variant = "text"
    /\ disp.rule = "no_match"
    /\ current_entry # 0
    /\ contrib[current_entry] = {i - 1}
    /\ heap[current_entry].text = Strip(lines[i - 1])

\* the emitted list after the span that is open, if any, was closed: the
\* XML parser emits it, the plain-text parser emits it when its text is
\* not empty and passes is_valid_entry
PriorClosed ==
    IF current_entry = 0 THEN entries
    ELSE IF \/ variant = "xml"
            \/ /\ heap[current_entry].text # <<>>
               /\ is_valid_entry(heap[current_entry].text)
         THEN Append(entries, current_entry)
         ELSE entries

\* the line is accepted as a single-line entry
SingleStep == ScanStep /\ Classify(variant, lines[i]).kind = "single"

\* the step makes a new entry of the title and the inline text of the line
NewFromSingle ==
    /\ Len(heap') = Len(heap) + 1
    /\ \A h \in 1..Len(heap) : heap'[h] = heap[h]
    /\ heap'[Len(heap')].title = Classify(variant, lines[i]).title
    /\ heap'[Len(heap')].text = Classify(variant, lines[i]).text

\* C18 as stated: after a line accepted as a single-line entry no span is
\* open, the span that was open has been closed before the new entry in the
\* order of emission, and the new entry is in the emitted list
C18_Original ==
    [][SingleStep =>
          /\ NewFromSingle
          /\ current_entry' = 0
          /\ entries' = Append(PriorClosed, Len(heap'))]_vars

\* C18 (amended): after a line accepted as a single-line entry the span
\* that was open has been closed, before the new entry in the order of
\* emission.  In the XML parser the new entry is emitted and no span is
\* open.  In the plain-text parser that holds when the inline text passes
\* is_valid_entry; otherwise the new entry is not emitted and is the open
\* span, so that the following lines are added to it
C18_Amended ==
    [][SingleStep =>
          /\ NewFromSingle
          /\ IF \/ variant = "xml"
                \/ is_valid_entry(Classify(variant, lines[i]).text)
             THEN /\ current_entry' = 0
                  /\ entries' = Append(PriorClosed, Len(heap'))
             ELSE /\ current_entry' = Len(heap')
                  /\ entries' = PriorClosed]_vars

\* plain text: the open span was emitted, then the single-line entry, and
\* no span is open
C18_Witness ==
    /\ variant = "text"
    /\ disp.kind = "single"
    /\ current_entry = 0
    /\ Len(entries) = 2
    /\ entries[2] = Len(heap)
    /\ opened[entries[2]] = i - 1

\* the line is accepted as a title-only line
TitleStep == ScanStep /\ Classify(variant, lines[i]).kind = "title"

\* the step opens a new span with the title of the line and the given text
NewSpan(text) ==
    /\ Len(heap') = Len(heap) + 1
    /\ \A h \in 1..Len(heap) : heap'[h] = heap[h]
    /\ heap'[Len(heap')].title = Classify(variant, lines[i]).title
    /\ heap'[Len(heap')].text = text
    /\ current_entry' = Len(heap')

\* C19 as stated: after a line accepted as a title-only line the span that
\* was open is closed (in the plain-text parser emitted subject to the
\* validator) and a new span is open, with the title of the line and empty
\* text
C19_Original ==
    [][TitleStep => (entries' = PriorClosed /\ NewSpan(<<>>))]_vars

\* C19 (amended): after a line accepted as a title-only line the span that
\* was open is closed and a new span is open with the title of the line;
\* its text is empty in the plain-text parser and is the whole title line
\* in the XML parser
C19_Amended ==
    [][TitleStep =>
          /\ entries' = PriorClosed
          /\ NewSpan(IF variant = "xml" THEN lines[i] ELSE <<>>)]_vars

\* XML: a title-only line closed and emitted the open span and opened a
\* span whose text is the title line
C19_Witness ==
    /\ variant = "xml"
    /\ disp.kind = "title"
    /\ current_entry = Len(heap)
    /\ heap[current_entry].text = lines[i - 1]
    /\ entries # <<>>
    /\ entries[Len(entries)] = current_entry - 1

(***************************************************************************)
(* Properties of the closing of spans.                                     *)
(***************************************************************************)
\* the spans closed so far: every span but the open one, and every span
\* once the final flush is done
ClosedSpans ==
    IF pc = "scan" THEN (1..Len(heap)) \ {current_entry} ELSE 1..Len(heap)

\* the closed spans that are to be emitted
EmittedSpans ==
    IF variant = "xml" THEN ClosedSpans
    ELSE {h \in ClosedSpans : is_valid_entry(heap[h].text)}

\* the lines among the first n that were accepted as title lines
AcceptedTitleLines(n) ==
    {k \in 1..n : Classify(variant, lines[k]).kind \in {"single", "title"}}

\* C20: every span that is opened is closed exactly once, by the next
\* accepted title line or at the end of the document.  In the XML parser
\* every closed span is emitted exactly once, so that the number of
\* entries before the merge is the number of accepted title lines; in the
\* plain-text parser a closed span is emitted exactly once if its text
\* passes is_valid_entry and is dropped otherwise
C20_ClosedAndEmittedOnce ==
    pc \in {"scan", "extracted"} =>
        /\ Len(heap) = Cardinality(AcceptedTitleLines(i - 1))
        /\ current_entry \in {0, Len(heap)}
        /\ entries = Sorted(EmittedSpans)
        /\ (variant = "xml" /\ pc = "extracted") =>
               Len(entries) = Cardinality(AcceptedTitleLines(Len(lines)))

\* XML: the final flush emitted the span that was open at the end of the
\* document, after an earlier entry
C20_Witness ==
    /\ variant = "xml"
    /\ pc = "extracted"
    /\ current_entry # 0
    /\ Len(entries) >= 2
    /\ entries[Len(entries)] = current_entry
    /\ Cardinality(contrib[current_entry]) >= 2

(***************************************************************************)
(* Properties of the title-only rule.                                      *)
(***************************************************************************)
\* the whole line is a capital followed by capitals, blanks, hyphens and
\* commas, and ends with a comma or a period
WholeLineTitle(l) ==
    /\ Len(l) >= 3
    /\ l[1] \in Upper
    /\ \A j \in 2..(Len(l) - 1) : l[j] \in Upper \cup Whitespace \cup {"-", ","}
    /\ l[Len(l)] \in {",", "."}

\* the line starts with a capital followed by one or more capitals, blanks
\* and hyphens, and that run ends at a comma, at a period or at the end of
\* the line
PrefixTitle(l) ==
    /\ Len(l) >= 2
    /\ l[1] \in Upper
    /\ \E k \in 3..(Len(l) + 1) :
           /\ \A j \in 2..(k - 1) : l[j] \in Upper \cup Whitespace \cup {"-"}
           /\ (k = Len(l) + 1 \/ l[k] \in {",", "."})

\* C21 as stated: in both parsers a line opens a span through the
\* title-only rule only if the whole trimmed line is a run of capitals
\* (with commas and hyphens) ended by a comma or a period with nothing
\* after it
C21_Original ==
    [][TitleStep => WholeLineTitle(Strip(lines[i]))]_vars

\* C21 (amended): that holds in the plain-text parser.  In the XML parser a
\* line opens a span through the title-only rule only if it starts with a
\* capital followed by capitals, blanks and hyphens up to a comma, a period
\* or the end of the line: the line may lack the punctuation, and text may
\* follow the punctuation
C21_Amended ==
    [][TitleStep =>
          IF variant = "xml" THEN PrefixTitle(lines[i])
          ELSE WholeLineTitle(Strip(lines[i]))]_vars

\* XML: "BOTANY, a." opened a span through the title-only rule
C21_Witness ==
    /\ variant = "xml"
    /\ disp.kind = "title"
    /\ current_entry = Len(heap)
    /\ i > 1
    /\ ~WholeLineTitle(lines[i - 1])
    /\ "a" \in {lines[i - 1][k] : k \in 1..Len(lines[i - 1])}

\* the title of the span a step opens
NewTitle == heap'[Len(heap')].title

\* plain text: the line matches the title-only pattern with a title of 3 or
\* 4 characters that passes the other rules (no single-letter prefix, a
\* word of 3 capitals; so few characters cannot hold more than 10 blanks)
LooseTitleLine(v, line) ==
    /\ v = "text"
    /\ TitleOnlyMatch(v, line).ok
    /\ Len(TitleOnlyTitle(v, line)) \in 3..4
    /\ ~(/\ TitleOnlyTitle(v, line)[1] \in Upper
         /\ TitleOnlyTitle(v, line)[2] \in Whitespace \cup {","})
    /\ CountWords(TitleOnlyTitle(v, line), Upper) >= 1

\* C22 as stated: the title-only shape of the plain-text parser rejects a
\* title for its length only below 3 characters, so that a title-only line
\* with a title of 3 or 4 characters that passes the other rules opens an
\* entry there; every other shape and parser rejects titles shorter than 5
C22_Original ==
    [][ScanStep =>
          /\ LooseTitleLine(variant, lines[i]) =>
                 /\ Len(heap') = Len(heap) + 1
                 /\ NewTitle = TitleOnlyTitle(variant, lines[i])
          /\ (/\ Len(heap') > Len(heap)
              /\ ~LooseTitleLine(variant, lines[i])) => Len(NewTitle) >= 5]_vars

\* C22 (amended): the minimum title length is 5 characters in every shape
\* of both parsers: no entry is opened with a shorter title, and a line
\* that matches the title-only pattern with a title of fewer than 5
\* characters opens no entry, in the plain-text parser too
C22_Amended ==
    [][ScanStep =>
          /\ Len(heap') > Len(heap) => Len(NewTitle) >= 5
          /\ (/\ TitleOnlyMatch(variant, lines[i]).ok
              /\ Len(TitleOnlyTitle(variant, lines[i])) < 5) =>
                 NothingOpenedOrClosed]_vars

\* plain text: "ARTS," was read first and opened no entry
C22_Witness ==
    /\ variant = "text"
    /\ i = 2
    /\ LooseTitleLine(variant, lines[1])
    /\ disp.rule = "title_short"
    /\ heap = <<>>

(***************************************************************************)
(* Properties of the lines met while no span is open.                      *)
(***************************************************************************)
\* the last of the first n lines that was accepted as a title line, 0 if
\* there is none
LastAccepted(n) ==
    IF AcceptedTitleLines(n) = {} THEN 0
    ELSE CHOOSE k \in AcceptedTitleLines(n) :
             \A j \in AcceptedTitleLines(n) : j <= k

\* no span is open when line i is read: no title line was accepted yet, or
\* the last one accepted was a single-line entry that was emitted at once
NoSpanOpen ==
    \/ LastAccepted(i - 1) = 0
    \/ /\ Classify(variant, lines[LastAccepted(i - 1)]).kind = "single"
       /\ \/ variant = "xml"
          \/ is_valid_entry(Classify(variant, lines[LastAccepted(i - 1)]).text)

\* C23: a line that is not accepted as a title line and is read while no
\* span is open is discarded: it changes the text of no entry, emitted or
\* not, and opens none; in particular no line before the first accepted
\* title line reaches an entry of extract_entries
C23_DiscardedWithoutSpan ==
    [][(/\ ScanStep
        /\ NoSpanOpen
        /\ Classify(variant, lines[i]).kind \notin {"single", "title"}) =>
          /\ current_entry = 0
          /\ heap' = heap
          /\ NothingOpenedOrClosed]_vars

\* a continuation line was read after a single-line entry was emitted, and
\* the entry's text is still the text of its own line
C23_Witness ==
    /\ pc = "scan"
    /\ disp.rule = "no_match"
    /\ current_entry = 0
    /\ entries # <<>>
    /\ opened[entries[Len(entries)]] < i - 1
    /\ contrib[entries[Len(entries)]] = {opened[entries[Len(entries)]]}

(***************************************************************************)
(* Emitted entries are not touched by later lines.                         *)
(***************************************************************************)
\* C24: once a span is in the list of entries of extract_entries, reading
\* a later line leaves its title and its text as they are; the open span is
\* never an entry that was already emitted
C24_EmittedFrozen ==
    [][ScanStep =>
          /\ \A k \in 1..Len(entries) :
                 /\ entries'[k] = entries[k]
                 /\ heap'[entries[k]] = heap[entries[k]]
          /\ \A k \in 1..Len(entries) : entries[k] # current_entry
          /\ \A k \in 1..Len(entries') : entries'[k] # current_entry']_vars

\* a continuation line was added to the open span after an earlier span
\* was emitted
C24_Witness ==
    /\ pc = "scan"
    /\ disp.kind \in {"append", "append_any"}
    /\ current_entry # 0
    /\ (i - 1) \in contrib[current_entry]
    /\ entries # <<>>
    /\ variant = "text"

(***************************************************************************)
(* Properties of the merged list.                                          *)
(***************************************************************************)
\* C25: in the plain-text parser every entry of the list extract_entries
\* returns, after the merge, has a text that passes is_valid_entry: joining
\* the texts of valid entries with a blank keeps them valid; only the
\* "Unknown" entry that parse() puts in place of an empty list may fail it
C25_MergedValid ==
    variant = "text" =>
        /\ pc \in {"extracted", "done"} =>
               \A k \in 1..Len(merged) : is_valid_entry(merged[k].text)
        /\ pc = "done" =>
               \/ \A k \in 1..Len(result) : is_valid_entry(result[k].text)
               \/ /\ merged = <<>>
                  /\ Len(result) = 1
                  /\ result[1].title = Unknown

\* plain text: two valid entries of one title were merged into one entry,
\* which parse() returns
C25_Witness ==
    /\ variant = "text"
    /\ pc = "done"
    /\ Len(entries) = 2
    /\ Len(result) = 1
    /\ result = merged
    /\ Len(result[1].text) >
           Len(heap[entries[1]].text) + Len(heap[entries[2]].text)

\* C26: in both parsers, for every document, the entries parse() returns
\* have pairwise distinct titles
C26_DistinctTitles ==
    pc = "done" =>
        \A j \in 1..Len(result) : \A k \in 1..Len(result) :
            j # k => result[j].title # result[k].title

\* XML: three entries, two of them of one title, gave two entries
C26_Witness ==
    /\ variant = "xml"
    /\ pc = "done"
    /\ Len(entries) = 3
    /\ heap[entries[1]].title = heap[entries[3]].title
    /\ Len(result) = 2

====
